---- MODULE Spec2Model ----
(***************************************************************************)
(* Loss functions of keras-retinanet (keras_retinanet/losses.py) and the   *)
(* model-loading step of the evaluation driver (bin/evaluate.py).          *)
(*                                                                         *)
(* Tensors are sequences (rows) of sequences.  Floating point values are   *)
(* exact rationals <<n, d>> with d > 0 in lowest terms; a division by zero *)
(* gives <<1, 0>> (+inf), <<-1, 0>> (-inf) or <<0, 0>> (NaN).              *)
(***************************************************************************)
EXTENDS Integers, Sequences, FiniteSets, TLC

VARIABLES
    pc,              \* which function is being run and where it is
    y_true,          \* the target tensor passed to a loss function
    y_pred,          \* the prediction tensor passed to a loss function
    bboxes1,         \* bbox_overlap_iou: first argument, shape (M, 4)
    bboxes2,         \* bbox_overlap_iou: second argument, shape (N, 4)
    args_model,      \* evaluate.main: args.model, a path
    custom_objects,  \* evaluate.main: the local custom_objects
    out              \* what the function computed: its locals and its result

vars == <<pc, y_true, y_pred, bboxes1, bboxes2, args_model, custom_objects, out>>

----------------------------------------------------------------------------
(* Bounds of the model *)

\* bbox_overlap_iou is explored on all valid boxes with corners in 0..MaxPixel
MaxPixel == 3

\* regression_loss_one: box corners of targets and predictions are in 0..MaxCoord
MaxCoord == 1

\* regression_loss_one: predicted boxes plus annotation rows of one image
MaxBoxes == 4

\* repulsion_loss: images in a batch
MaxBatch == 2

\* focal and smooth_l1: anchors in the whole batch (B * N)
MaxAnchors == 2

\* evaluate.main: words in a file or directory name
MaxNameWords == 2

----------------------------------------------------------------------------
(* Exact arithmetic *)

Abs(x) == IF x < 0 THEN -x ELSE x

Max2(a, b) == IF a < b THEN b ELSE a

Min2(a, b) == IF a < b THEN a ELSE b

RECURSIVE GCD(_, _)
GCD(a, b) == IF b = 0 THEN a ELSE GCD(b, a % b)

PosInf == <<1, 0>>

NegInf == <<-1, 0>>

NaN == <<0, 0>>

Zero == <<0, 1>>

\* n / d as a float: the reduced fraction, or IEEE's result for d = 0
Div(n, d) ==
    IF d = 0
    THEN (IF n > 0 THEN PosInf ELSE IF n < 0 THEN NegInf ELSE NaN)
    ELSE LET s == IF d < 0 THEN -1 ELSE 1
             g == GCD(Abs(n), Abs(d))
         IN  <<(s * n) \div g, (s * d) \div g>>

RAdd(a, b) == Div(a[1] * b[2] + b[1] * a[2], a[2] * b[2])

RSub(a, b) == Div(a[1] * b[2] - b[1] * a[2], a[2] * b[2])

RMul(a, b) == Div(a[1] * b[1], a[2] * b[2])

RDivInt(a, k) == Div(a[1], a[2] * k)

\* a > b and a < b as IEEE comparisons (false whenever a NaN is involved)
Greater(a, b) == a[1] * b[2] > b[1] * a[2]

Less(a, b) == Greater(b, a)

\* K.maximum(x, 0)
MaximumZero(x) == IF Less(x, Zero) THEN Zero ELSE x

RECURSIVE RSum(_)
RSum(s) == IF s = <<>> THEN Zero ELSE RAdd(Head(s), RSum(Tail(s)))

RMax(a, b) == IF Less(a, b) THEN b ELSE a

RMin(a, b) == IF Less(b, a) THEN b ELSE a

RAbs(a) == <<Abs(a[1]), a[2]>>

One == <<1, 1>>

Half == <<1, 2>>

\* a matrix keeps its shape beside its rows: a (0, N) matrix has N columns
Matrix(rows, ncols) == [rows |-> rows, ncols |-> ncols]

\* the integers of a raw tensor row as floats
ToFloat(row) == [k \in 1..Len(row) |-> <<row[k], 1>>]

----------------------------------------------------------------------------
(* Geometric overlap: bbox_overlap_iou and bbox_iog on float boxes         *)
(* <<x1, y1, x2, y2>>.                                                     *)

InterArea(b1, b2) ==
    LET xI1 == RMax(b1[1], b2[1])
        yI1 == RMax(b1[2], b2[2])
        xI2 == RMin(b1[3], b2[3])
        yI2 == RMin(b1[4], b2[4])
    IN  RMul(RAdd(RSub(xI2, xI1), One), RAdd(RSub(yI2, yI1), One))

BoxArea(b) == RMul(RAdd(RSub(b[3], b[1]), One), RAdd(RSub(b[4], b[2]), One))

\* x / y on floats
RDiv(x, y) == Div(x[1] * y[2], x[2] * y[1])

IouPair(b1, b2) ==
    LET inter_area == InterArea(b1, b2)
        union      == RSub(RAdd(BoxArea(b1), BoxArea(b2)), inter_area)
    IN  MaximumZero(RDiv(inter_area, union))

bbox_overlap_iou(b1, b2) ==
    Matrix([i \in 1..Len(b1) |-> [j \in 1..Len(b2) |-> IouPair(b1[i], b2[j])]],
           Len(b2))

IogPair(predicted, ground_truth) ==
    LET intersect_area == InterArea(predicted, ground_truth)
        gt_area        == BoxArea(ground_truth)
    IN  MaximumZero(RDiv(intersect_area, gt_area))

bbox_iog(predicted, ground_truth) ==
    Matrix([i \in 1..Len(predicted) |->
               [j \in 1..Len(ground_truth) |-> IogPair(predicted[i], ground_truth[j])]],
           Len(ground_truth))

----------------------------------------------------------------------------
(* Loss values.  The logarithm is kept symbolic: a loss is                 *)
(*     rat + SUM over <<a, c>> in logs of c * (-log(a))                    *)
(* with one pair per argument a, no pair with c = 0 and none with a = 1    *)
(* (-log(1) is exactly 0).  Every a is in (0, 1) and every c is positive   *)
(* or non-finite, so a loss is exactly 0.0 iff it equals ZeroLoss.         *)

CoefOf(logs, a) ==
    IF \E t \in logs : t[1] = a THEN (CHOOSE t \in logs : t[1] = a)[2] ELSE Zero

Canon(rat, coef, args) ==
    [rat  |-> rat,
     logs |-> {<<a, coef[a]>> : a \in {x \in args : x # One /\ coef[x] # Zero}}]

\* K.variable(0.0)
ZeroLoss == Canon(Zero, <<>>, {})

\* a finite float as a loss
RatLoss(q) == Canon(q, <<>>, {})

\* c * (-log(a))
LogLoss(c, a) == Canon(Zero, [x \in {a} |-> c], {a})

LossAdd(l1, l2) ==
    LET args == {t[1] : t \in l1.logs \cup l2.logs}
    IN  Canon(RAdd(l1.rat, l2.rat),
              [a \in args |-> RAdd(CoefOf(l1.logs, a), CoefOf(l2.logs, a))], args)

\* l / n for an integer n (n = 0 divides by zero)
LossDivInt(l, n) ==
    LET args == {t[1] : t \in l.logs}
    IN  Canon(RDivInt(l.rat, n), [a \in args |-> RDivInt(CoefOf(l.logs, a), n)], args)

\* q * l for a float q
LossMul(q, l) ==
    LET args == {t[1] : t \in l.logs}
    IN  Canon(RMul(q, l.rat), [a \in args |-> RMul(q, CoefOf(l.logs, a))], args)

\* K.sum of a sequence of losses
RECURSIVE LossSum(_)
LossSum(s) == IF s = <<>> THEN ZeroLoss ELSE LossAdd(Head(s), LossSum(Tail(s)))

----------------------------------------------------------------------------
(* smooth_l1_distance and smooth_ln *)

SigmaDelta == 3

\* one element of smooth_l1_distance(y_true, y_pred, delta = 3.)
smooth_l1_element(t, p) ==
    LET sigma_squared   == <<SigmaDelta * SigmaDelta, 1>>
        regression_diff == RAbs(RSub(p, t))
    IN  IF Less(regression_diff, RDiv(One, sigma_squared))
        THEN RMul(RMul(Half, sigma_squared), RMul(regression_diff, regression_diff))
        ELSE RSub(regression_diff, RDiv(Half, sigma_squared))

\* smooth_l1_distance on two (n, 4) tensors, element by element
smooth_l1_distance(t, p) ==
    [i \in 1..Len(t) |-> [k \in 1..Len(t[i]) |-> smooth_l1_element(t[i][k], p[i][k])]]

\* smooth_ln(x, delta) of one value: where(x <= delta, true_fn, false_fn)
smooth_ln(x, delta) ==
    IF ~Greater(x, delta)
    THEN LogLoss(One, RSub(One, x))
    ELSE LossAdd(RatLoss(RDiv(RSub(x, delta), RSub(One, delta))),
                 LogLoss(One, RSub(One, delta)))

----------------------------------------------------------------------------
(* Index selection: K.argmax, tf.nn.top_k, K.max, where + gather_nd *)

\* K.max(row): the largest entry, -inf for an empty row
RECURSIVE RowMax(_)
RowMax(row) == IF row = <<>> THEN NegInf ELSE RMax(Head(row), RowMax(Tail(row)))

\* an argmax that returns the highest index holding the largest entry
ArgMaxLast(row) ==
    CHOOSE j \in 1..Len(row) :
        /\ \A k \in 1..Len(row) : ~Greater(row[k], row[j])
        /\ \A k \in (j + 1)..Len(row) : Less(row[k], row[j])

\* K.argmax(row): the lowest index holding the largest entry
ArgMax(row) ==
    CHOOSE j \in 1..Len(row) :
        /\ \A k \in 1..Len(row) : ~Greater(row[k], row[j])
        /\ \A k \in 1..(j - 1) : Less(row[k], row[j])

\* tf.nn.top_k(row, k=2) indices: sorted by value, the lower index first on a tie
TopK2(row) ==
    LET first  == CHOOSE j \in 1..Len(row) :
                      /\ \A k \in 1..Len(row) : ~Greater(row[k], row[j])
                      /\ \A k \in 1..(j - 1) : Less(row[k], row[j])
        others == {k \in 1..Len(row) : k # first}
        second == CHOOSE j \in others :
                      /\ \A k \in others : ~Greater(row[k], row[j])
                      /\ \A k \in others : k < j => Less(row[k], row[j])
    IN  <<first, second>>

\* backend.where(mask): the indices from k on where mask holds, in increasing order
RECURSIVE WhereFrom(_, _)
WhereFrom(mask, k) ==
    IF k > Len(mask) THEN <<>>
    ELSE IF mask[k] THEN <<k>> \o WhereFrom(mask, k + 1)
    ELSE WhereFrom(mask, k + 1)

\* gather_nd(tensor, indices): the rows at the indices, in their order
Gather(tensor, indices) == [k \in 1..Len(indices) |-> tensor[indices[k]]]

Sum4(r) == RAdd(RAdd(r[1], r[2]), RAdd(r[3], r[4]))

----------------------------------------------------------------------------
(* attraction_term, repulsion_term_gt, regression_loss_one *)

indices_highest_iou(iou_over_predicted) ==
    [k \in 1..Len(iou_over_predicted.rows) |-> ArgMax(iou_over_predicted.rows[k])]

attraction_term(gt, pred, iou_over_predicted) ==
    LET gt_highest_iou == Gather(gt, indices_highest_iou(iou_over_predicted))
        dist           == smooth_l1_distance(pred, gt_highest_iou)
    IN  LossDivInt(RatLoss(RSum([i \in 1..Len(dist) |-> Sum4(dist[i])])), Len(pred))

indices_2highest_iou(iou_over_predicted) ==
    [k \in 1..Len(iou_over_predicted.rows) |-> TopK2(iou_over_predicted.rows[k])[2]]

\* what a TensorFlow op raises on an argument it rejects
InvalidArgumentError == [rat |-> NaN, logs |-> {<<Zero, NaN>>}]

two_prediction_exists(gt, pred, iou_over_predicted, alpha) ==
    IF iou_over_predicted.ncols < 2
    THEN InvalidArgumentError  \* top_k: input must have at least k columns
    ELSE
    LET gt_2highest_iou == Gather(gt, indices_2highest_iou(iou_over_predicted))
        iog == [k \in 1..Len(pred) |->
                   bbox_iog(<<pred[k]>>, <<gt_2highest_iou[k]>>).rows[1][1]]
    IN  LossDivInt(LossSum([k \in 1..Len(pred) |-> smooth_ln(iog[k], alpha)]), Len(pred))

\* the branch taken were the condition shape[1] > 0
repulsion_branch_one_column(iou_over_predicted) ==
    IF iou_over_predicted.ncols > 0 THEN "two_prediction_exists" ELSE "predictions_empty"

\* the branch tf.cond takes in repulsion_term_gt
repulsion_branch(iou_over_predicted) ==
    IF iou_over_predicted.ncols > 1 THEN "two_prediction_exists" ELSE "predictions_empty"

repulsion_term_gt(gt, pred, iou_over_predicted, alpha) ==
    IF repulsion_branch(iou_over_predicted) = "two_prediction_exists"
    THEN two_prediction_exists(gt, pred, iou_over_predicted, alpha)
    ELSE ZeroLoss

\* y_true[1:annotations_len, :4] (0-based, end exclusive) on the 1-based rows
SliceAnnotations(target, annotations_len) ==
    SubSeq(target, 2, Min2(annotations_len, Len(target)))

\* box / [image_w, image_h, image_w, image_h]
Normalize(box, image_w, image_h) ==
    <<Div(box[1], image_w), Div(box[2], image_h),
      Div(box[3], image_w), Div(box[4], image_h)>>

\* the filter were it K.greater_equal(highest_iou, 0.5)
IsPositiveMatchOrEqual(highest_iou) == ~Less(highest_iou, Half) /\ highest_iou # NaN

\* K.greater(highest_iou, 0.5)
IsPositiveMatch(highest_iou) == Greater(highest_iou, Half)

regression_loss_one(target, prediction) ==
    LET image_w         == target[1][1]
        image_h         == target[1][2]
        annotations_len == target[1][3]
        sliced == SliceAnnotations(target, annotations_len)
        gt     == [k \in 1..Len(sliced) |-> Normalize(sliced[k], image_w, image_h)]
        pred   == [k \in 1..Len(prediction) |-> Normalize(prediction[k], image_w, image_h)]
        iou_all     == bbox_overlap_iou(pred, gt)
        highest_iou == [k \in 1..Len(pred) |-> RowMax(iou_all.rows[k])]
        iou_gt_05   == WhereFrom([k \in 1..Len(pred) |-> IsPositiveMatch(highest_iou[k])], 1)
        pred_kept   == Gather(pred, iou_gt_05)
        iou_over_predicted == Matrix(Gather(iou_all.rows, iou_gt_05), iou_all.ncols)
        alpha    == Half
        has_data == /\ Len(iou_over_predicted.rows) > 0
                    /\ iou_over_predicted.ncols > 0
                    /\ Len(gt) > 0
        attraction == IF has_data THEN attraction_term(gt, pred_kept, iou_over_predicted)
                      ELSE ZeroLoss
        repulsion  == IF has_data THEN repulsion_term_gt(gt, pred_kept, iou_over_predicted, alpha)
                      ELSE ZeroLoss
    IN  [y_true      |-> gt,
         y_pred_all  |-> pred,
         iou_all     |-> iou_all,
         highest_iou |-> highest_iou,
         iou_gt_05   |-> iou_gt_05,
         y_pred      |-> pred_kept,
         iou_over_predicted |-> iou_over_predicted,
         has_data    |-> has_data,
         branch      |-> IF has_data THEN repulsion_branch(iou_over_predicted) ELSE "not_run",
         indices_highest_iou  |-> IF has_data THEN indices_highest_iou(iou_over_predicted)
                                  ELSE <<>>,
         indices_2highest_iou |-> IF has_data /\ iou_over_predicted.ncols > 1
                                  THEN indices_2highest_iou(iou_over_predicted) ELSE <<>>,
         attraction  |-> attraction,
         repulsion   |-> repulsion,
         loss        |-> IF has_data THEN LossAdd(attraction, repulsion) ELSE ZeroLoss]

----------------------------------------------------------------------------
(* repulsion_loss: K.map_fn over the images of a batch *)

\* an element computed from the first image's target
map_fn_element_first(targets, predictions, i) ==
    regression_loss_one(targets[1], predictions[i]).loss

\* what map_fn computes for element i
map_fn_element(targets, predictions, i) ==
    regression_loss_one(targets[i], predictions[i]).loss

----------------------------------------------------------------------------
(* Anchor tensors of shape (B, N, K): a sequence of B sequences of N rows *)

\* the positions <<b, n>> of a (B, N) tensor in row-major order
RECURSIVE Positions(_, _)
Positions(t, b) ==
    IF b > Len(t) THEN <<>>
    ELSE [n \in 1..Len(t[b]) |-> <<b, n>>] \o Positions(t, b + 1)

AnchorState(t, pos) == LET row == t[pos[1]][pos[2]] IN row[Len(row)]

\* backend.gather_nd(tensor, indices) on positions
GatherPositions(t, indices) == [k \in 1..Len(indices) |-> t[indices[k][1]][indices[k][2]]]

----------------------------------------------------------------------------
(* focal(alpha, gamma)._focal *)

Alpha == <<1, 4>>

Gamma == 2

RECURSIVE RPow(_, _)
RPow(x, n) == IF n = 0 THEN One ELSE RMul(x, RPow(x, n - 1))

\* keras.backend.binary_crossentropy(label, p) of one element
binary_crossentropy(label, p) ==
    LossAdd(LogLoss(label, p), LogLoss(RSub(One, label), RSub(One, p)))

\* one element of cls_loss
cls_loss_element(label, p) ==
    LET alpha_factor == IF label = One THEN Alpha ELSE RSub(One, Alpha)
        focal_weight == IF label = One THEN RSub(One, p) ELSE p
    IN  LossMul(RMul(alpha_factor, RPow(focal_weight, Gamma)), binary_crossentropy(label, p))

\* _focal without the filter on ignored anchors
focal_indices_keep_all(target) == Positions(target, 1)

\* the anchors _focal keeps: state != -1
focal_indices(target) ==
    SelectSeq(Positions(target, 1), LAMBDA pos : AnchorState(target, pos) # -1)

\* the normalizer without its floor of 1
focal_normalizer_count(target) ==
    Len(SelectSeq(Positions(target, 1), LAMBDA pos : AnchorState(target, pos) = 1))

\* max(1.0, number of anchors with state == 1)
focal_normalizer(target) ==
    Max2(1, Len(SelectSeq(Positions(target, 1), LAMBDA pos : AnchorState(target, pos) = 1)))

_focal(target, prediction) ==
    LET indices        == focal_indices(target)
        rows           == GatherPositions(target, indices)
        labels         == [k \in 1..Len(rows) |-> SubSeq(rows[k], 1, Len(rows[k]) - 1)]
        classification == GatherPositions(prediction, indices)
        cls_loss == [k \in 1..Len(labels) |->
                        LossSum([c \in 1..Len(labels[k]) |->
                                    cls_loss_element(labels[k][c], classification[k][c])])]
        normalizer == focal_normalizer(target)
    IN  [indices    |-> indices,
         normalizer |-> normalizer,
         loss       |-> LossDivInt(LossSum(cls_loss), normalizer)]

----------------------------------------------------------------------------
(* smooth_l1(sigma)._smooth_l1 *)

Sigma == 3

\* _smooth_l1 filtering as _focal does: state != -1
smooth_l1_indices_not_ignored(target) ==
    SelectSeq(Positions(target, 1), LAMBDA pos : AnchorState(target, pos) # -1)

\* the anchors _smooth_l1 keeps: state == 1
smooth_l1_indices(target) ==
    SelectSeq(Positions(target, 1), LAMBDA pos : AnchorState(target, pos) = 1)

regression_loss_element(t, p) ==
    LET sigma_squared   == <<Sigma * Sigma, 1>>
        regression_diff == RAbs(RSub(p, t))
    IN  IF Less(regression_diff, RDiv(One, sigma_squared))
        THEN RMul(RMul(Half, sigma_squared), RMul(regression_diff, regression_diff))
        ELSE RSub(regression_diff, RDiv(Half, sigma_squared))

_smooth_l1(target, prediction) ==
    LET indices           == smooth_l1_indices(target)
        regression        == GatherPositions(prediction, indices)
        rows              == GatherPositions(target, indices)
        regression_target == [k \in 1..Len(rows) |-> SubSeq(rows[k], 1, 4)]
        regression_loss ==
            [k \in 1..Len(indices) |->
                RSum([c \in 1..4 |->
                        regression_loss_element(regression_target[k][c], regression[k][c])])]
        normalizer == Max2(1, Len(indices))
    IN  [indices    |-> indices,
         normalizer |-> normalizer,
         loss       |-> LossDivInt(RatLoss(RSum(regression_loss)), normalizer)]

----------------------------------------------------------------------------
(* evaluate.main: choosing custom_objects, then keras.models.load_model.   *)
(* A path is a sequence of names, a name a sequence of words; a string     *)
(* occurs in a name iff it is one of its words.                            *)

\* os.path.basename(path)
Basename(path) == path[Len(path)]

\* word in name
Occurs(word, name) == \E k \in 1..Len(name) : name[k] = word

\* the if/elif chain of main: the import that binds custom_objects
ImportCustomObjects(path, before) ==
    IF Occurs("mobilenet", Basename(path)) THEN "mobilenet"
    ELSE IF Occurs("resnet", Basename(path)) THEN "resnet"
    ELSE IF Occurs("densenet", Basename(path)) THEN "densenet"
    ELSE IF Occurs("vgg", Basename(path)) THEN "vgg"
    ELSE before

----------------------------------------------------------------------------
(* Inputs *)

\* pixel boxes with x1 <= x2 and y1 <= y2, corners in 0..m
ValidBoxes(m) ==
    {b \in (0..m) \X (0..m) \X (0..m) \X (0..m) : b[1] <= b[3] /\ b[2] <= b[4]}

\* pixel boxes one pixel high with x1 <= x2, corners in 0..m
LineBoxes(m) == {b \in ValidBoxes(m) : b[2] = 0 /\ b[4] = 0}

\* image sizes <<W, H>> of the repulsion loss inputs
ImageSizes == {<<1, 1>>, <<2, 1>>}

\* all sequences of length n over S
SeqsOf(S, n) == [1..n -> S]

----------------------------------------------------------------------------
(* bbox_overlap_iou called on two box lists in pixel coordinates *)

InitIou ==
    /\ pc = "iou_start"
    /\ bboxes1 \in {<<ToFloat(b)>> : b \in ValidBoxes(MaxPixel)}
    /\ bboxes2 \in {<<ToFloat(b)>> : b \in ValidBoxes(MaxPixel)}
    /\ out = <<>>
    /\ y_true = <<>> /\ y_pred = <<>> /\ args_model = <<>> /\ custom_objects = "unbound"

CallIou ==
    /\ pc = "iou_start"
    /\ out' = bbox_overlap_iou(bboxes1, bboxes2)
    /\ pc' = "iou_done"
    /\ UNCHANGED <<y_true, y_pred, bboxes1, bboxes2, args_model, custom_objects>>

NextIou == CallIou

SpecIou == InitIou /\ [][NextIou]_vars

\* two boxes whose coordinate ranges are disjoint on the x axis or on the y axis
NoOverlap(a, b) ==
    \/ Less(a[3], b[1]) \/ Less(b[3], a[1])
    \/ Less(a[4], b[2]) \/ Less(b[4], a[2])

\* C2: bbox_overlap_iou returns exactly 0 for every pair of valid boxes that
\* have no spatial overlap.
C2_NoOverlapIouZero ==
    pc = "iou_done" =>
        \A i \in 1..Len(bboxes1) : \A j \in 1..Len(bboxes2) :
            NoOverlap(bboxes1[i], bboxes2[j]) => out.rows[i][j] = Zero

----------------------------------------------------------------------------
(* regression_loss_one called on one image *)

\* a target: the metadata row, then L annotated boxes
Targets(L) ==
    {<<<<sz[1], sz[2], L, 0>>>> \o rows :
        sz \in ImageSizes, rows \in SeqsOf(LineBoxes(MaxCoord), L)}

InitOne ==
    /\ pc = "one_start"
    /\ \E np \in 1..MaxBoxes : \E L \in 0..(MaxBoxes - np) :
        /\ y_true \in Targets(L)
        /\ y_pred \in SeqsOf(LineBoxes(MaxCoord), np)
    /\ out = <<>>
    /\ bboxes1 = <<>> /\ bboxes2 = <<>> /\ args_model = <<>> /\ custom_objects = "unbound"

CallOne ==
    /\ pc = "one_start"
    /\ out' = regression_loss_one(y_true, y_pred)
    /\ pc' = "one_done"
    /\ UNCHANGED <<y_true, y_pred, bboxes1, bboxes2, args_model, custom_objects>>

NextOne == CallOne

SpecOne == InitOne /\ [][NextOne]_vars

\* the L annotated boxes of a target: the L rows after the metadata row
AnnotatedBoxes(target) ==
    [k \in 1..target[1][3] |-> Normalize(target[k + 1], target[1][1], target[1][2])]

\* C1: the ground-truth boxes regression_loss_one uses are exactly the L rows
\* 1..L that follow the metadata row, L being the annotation count of row 0.
C1_UsesAllAnnotations ==
    pc = "one_done" => out.y_true = AnnotatedBoxes(y_true)

\* C6: with fewer than 2 ground-truth boxes the repulsion term is exactly 0.0
\* and the loss is the attraction term alone; the second-best-match branch runs
\* only on an IoU matrix of at least 2 ground-truth columns.
C6_RepulsionZeroBelowTwoGt ==
    pc = "one_done" =>
        /\ (y_true[1][3] < 2 \/ Len(out.y_true) < 2) =>
              /\ out.repulsion = ZeroLoss
              /\ out.loss = out.attraction
              /\ out.branch # "two_prediction_exists"
        /\ out.branch = "two_prediction_exists" =>
              /\ out.iou_over_predicted.ncols >= 2
              /\ Len(out.y_true) >= 2

\* an image with one ground-truth box, a kept prediction and a non-zero attraction
C6_Witness ==
    /\ pc = "one_done"
    /\ Len(out.y_true) = 1
    /\ out.has_data
    /\ out.attraction # ZeroLoss
    /\ out.repulsion = ZeroLoss

\* C7: the loss is exactly 0.0, and no error, when no predicted box is kept
\* or there is no ground-truth box; the two terms are evaluated only with a
\* kept box and a ground-truth box; a box whose best IoU is exactly 0.5 is
\* discarded.
C7_ZeroWithoutData ==
    pc = "one_done" =>
        /\ (Len(out.y_pred) = 0 \/ Len(out.y_true) = 0 \/ y_true[1][3] = 0) =>
              /\ out.loss = ZeroLoss
              /\ out.branch = "not_run"
        /\ out.branch # "not_run" => Len(out.y_pred) >= 1 /\ Len(out.y_true) >= 1
        /\ out.loss # InvalidArgumentError
        /\ \A k \in 1..Len(out.highest_iou) :
              out.highest_iou[k] = Half =>
                  \A m \in 1..Len(out.iou_gt_05) : out.iou_gt_05[m] # k

\* the only predicted box has a best IoU of exactly 0.5: it is dropped, the loss is 0.0
C7_Witness ==
    /\ pc = "one_done"
    /\ Len(out.y_true) >= 1
    /\ Len(y_pred) = 1
    /\ out.highest_iou[1] = Half
    /\ out.iou_gt_05 = <<>>
    /\ out.loss = ZeroLoss

----------------------------------------------------------------------------
(* repulsion_loss called on a batch: map_fn runs the elements in any order *)

\* images of the batch: width 2, one predicted box, two annotation rows
BatchTargets == {<<<<2, 1, 2, 0>>>> \o rows : rows \in SeqsOf(LineBoxes(1), 2)}

BatchPredictions == SeqsOf(LineBoxes(1), 1)

InitBatch ==
    /\ pc = "map_run"
    /\ \E B \in 1..MaxBatch :
        /\ y_true \in SeqsOf(BatchTargets, B)
        /\ y_pred \in SeqsOf(BatchPredictions, B)
        /\ out = [losses |-> [i \in 1..B |-> ZeroLoss], computed |-> {}]
    /\ bboxes1 = <<>> /\ bboxes2 = <<>> /\ args_model = <<>> /\ custom_objects = "unbound"

MapStep ==
    /\ pc = "map_run"
    /\ \E i \in (1..Len(y_true)) \ out.computed :
        out' = [losses   |-> [out.losses EXCEPT ![i] = map_fn_element(y_true, y_pred, i)],
                computed |-> out.computed \cup {i}]
    /\ UNCHANGED <<pc, y_true, y_pred, bboxes1, bboxes2, args_model, custom_objects>>

MapReturn ==
    /\ pc = "map_run"
    /\ out.computed = 1..Len(y_true)
    /\ pc' = "map_done"
    /\ UNCHANGED <<y_true, y_pred, bboxes1, bboxes2, args_model, custom_objects, out>>

NextBatch == MapStep \/ MapReturn

SpecBatch == InitBatch /\ [][NextBatch]_vars

\* C8: repulsion_loss returns one scalar per image, in input order, and element
\* i is regression_loss_one of image i alone, whatever the other images are and
\* in whatever order the elements were computed.
C8_PerImageInOrder ==
    /\ pc \in {"map_run", "map_done"} =>
          /\ Len(out.losses) = Len(y_true)
          /\ \A i \in out.computed :
                out.losses[i] = regression_loss_one(y_true[i], y_pred[i]).loss
    /\ pc = "map_done" => out.computed = 1..Len(y_true)

\* a finished batch of two images whose losses differ
C8_Witness ==
    /\ pc = "map_done"
    /\ Len(y_true) = 2
    /\ out.losses[1] # out.losses[2]
    /\ out.losses[2] # ZeroLoss

----------------------------------------------------------------------------
(* _focal called on a classification batch with two classes *)

LabelRows == {<<Zero, Zero>>, <<One, Zero>>, <<Zero, One>>}

ScoreRows == {<<<<1, 4>>, <<3, 4>>>>, <<<<3, 4>>, <<1, 4>>>>, <<Half, Half>>}

AnchorStates == {-1, 0, 1}

\* the shapes (B, N) with at most MaxAnchors anchors
Shapes == {sh \in (1..MaxAnchors) \X (1..MaxAnchors) : sh[1] * sh[2] <= MaxAnchors}

Tensors(sh, Rows) == [1..sh[1] -> [1..sh[2] -> Rows]]

InitFocal ==
    /\ pc = "focal_start"
    /\ \E sh \in Shapes :
        /\ y_true \in Tensors(sh, {l \o <<st>> : l \in LabelRows, st \in AnchorStates})
        /\ y_pred \in Tensors(sh, ScoreRows)
    /\ out = <<>>
    /\ bboxes1 = <<>> /\ bboxes2 = <<>> /\ args_model = <<>> /\ custom_objects = "unbound"

CallFocal ==
    /\ pc = "focal_start"
    /\ out' = _focal(y_true, y_pred)
    /\ pc' = "focal_done"
    /\ UNCHANGED <<y_true, y_pred, bboxes1, bboxes2, args_model, custom_objects>>

NextFocal == CallFocal

SpecFocal == InitFocal /\ [][NextFocal]_vars

\* the target with the values of every anchor whose state is in drop
\* overwritten by values (its state is kept)
ScrubTarget(target, drop, values) ==
    [b \in 1..Len(target) |-> [n \in 1..Len(target[b]) |->
        IF AnchorState(target, <<b, n>>) \in drop
        THEN values \o <<AnchorState(target, <<b, n>>)>>
        ELSE target[b][n]]]

\* the prediction with the row of every anchor whose state is in drop
\* overwritten by values
ScrubPrediction(prediction, target, drop, values) ==
    [b \in 1..Len(prediction) |-> [n \in 1..Len(prediction[b]) |->
        IF AnchorState(target, <<b, n>>) \in drop THEN values ELSE prediction[b][n]]]

\* C3: the focal loss does not depend on the labels and scores of the anchors
\* of state -1 (it equals the loss of the input with those overwritten), and
\* the anchors it keeps are exactly those of state 0 and 1.
C3_IgnoredAnchorsExcluded ==
    pc = "focal_done" =>
        /\ out.loss =
              _focal(ScrubTarget(y_true, {-1}, <<Zero, Zero>>),
                     ScrubPrediction(y_pred, y_true, {-1}, <<Half, Half>>)).loss
        /\ out.indices =
              SelectSeq(Positions(y_true, 1), LAMBDA pos : AnchorState(y_true, pos) \in {0, 1})

\* an ignored anchor with a positive label beside a kept anchor
C3_Witness ==
    /\ pc = "focal_done"
    /\ Len(out.indices) >= 1
    /\ out.loss # ZeroLoss
    /\ \E pos \in {Positions(y_true, 1)[k] : k \in 1..Len(Positions(y_true, 1))} :
          /\ AnchorState(y_true, pos) = -1
          /\ y_true[pos[1]][pos[2]][1] = One
          /\ y_pred[pos[1]][pos[2]] # <<Half, Half>>

NumPositive(t) ==
    Cardinality({k \in 1..Len(Positions(t, 1)) : AnchorState(t, Positions(t, 1)[k]) = 1})

\* C4: the focal normalizer is max(1, number of anchors of state 1), never
\* below 1; with every anchor ignored nothing is gathered and the loss is 0.
C4_NormalizerFloor ==
    pc = "focal_done" =>
        /\ out.normalizer >= 1
        /\ out.normalizer = IF NumPositive(y_true) = 0 THEN 1 ELSE NumPositive(y_true)
        /\ (\A k \in 1..Len(Positions(y_true, 1)) :
                AnchorState(y_true, Positions(y_true, 1)[k]) = -1) =>
              out.indices = <<>> /\ out.loss = ZeroLoss

\* a target whose anchors are all ignored
C4_Witness ==
    /\ pc = "focal_done"
    /\ Len(Positions(y_true, 1)) = MaxAnchors
    /\ \A k \in 1..Len(Positions(y_true, 1)) :
          AnchorState(y_true, Positions(y_true, 1)[k]) = -1
    /\ out.loss = ZeroLoss

----------------------------------------------------------------------------
(* _smooth_l1 called on a regression batch *)

TargetRows == {<<v, v, v, v>> : v \in {Zero, <<1, 9>>}}

RegressionRows == {<<v, Zero, v, Zero>> : v \in {Zero, <<1, 18>>, One}}

InitSmooth ==
    /\ pc = "smooth_start"
    /\ \E sh \in Shapes :
        /\ y_true \in Tensors(sh, {t \o <<st>> : t \in TargetRows, st \in AnchorStates})
        /\ y_pred \in Tensors(sh, RegressionRows)
    /\ out = <<>>
    /\ bboxes1 = <<>> /\ bboxes2 = <<>> /\ args_model = <<>> /\ custom_objects = "unbound"

CallSmooth ==
    /\ pc = "smooth_start"
    /\ out' = _smooth_l1(y_true, y_pred)
    /\ pc' = "smooth_done"
    /\ UNCHANGED <<y_true, y_pred, bboxes1, bboxes2, args_model, custom_objects>>

NextSmooth == CallSmooth

SpecSmooth == InitSmooth /\ [][NextSmooth]_vars

\* C5: the smooth-L1 loss is over the anchors of state 1 only: it equals the
\* loss of the input with every other anchor's target and prediction
\* overwritten, its normalizer is max(1, number of anchors of state 1), and it
\* is 0 when no anchor has state 1.
C5_PositiveAnchorsOnly ==
    pc = "smooth_done" =>
        /\ out.loss =
              _smooth_l1(ScrubTarget(y_true, {-1, 0}, <<Zero, Zero, Zero, Zero>>),
                         ScrubPrediction(y_pred, y_true, {-1, 0},
                                         <<Zero, Zero, Zero, Zero>>)).loss
        /\ out.normalizer = IF NumPositive(y_true) = 0 THEN 1 ELSE NumPositive(y_true)
        /\ NumPositive(y_true) = 0 => out.loss = ZeroLoss

\* a background anchor whose prediction misses its target, beside a positive
\* anchor with a non-zero loss
C5_Witness ==
    /\ pc = "smooth_done"
    /\ NumPositive(y_true) = 1
    /\ out.loss # ZeroLoss
    /\ \E pos \in {Positions(y_true, 1)[k] : k \in 1..Len(Positions(y_true, 1))} :
          /\ AnchorState(y_true, pos) = 0
          /\ y_pred[pos[1]][pos[2]][1] # y_true[pos[1]][pos[2]][1]

----------------------------------------------------------------------------
(* evaluate.main from the parsed arguments to keras.models.load_model *)

Words == {"mobilenet", "resnet", "densenet", "vgg", "model"}

Names == UNION {SeqsOf(Words, n) : n \in 1..MaxNameWords}

InitEval ==
    /\ pc = "eval_start"
    /\ args_model \in {<<dir, base>> : dir \in SeqsOf(Words, 1), base \in Names}
    /\ custom_objects = "unbound"
    /\ out = <<>>
    /\ y_true = <<>> /\ y_pred = <<>> /\ bboxes1 = <<>> /\ bboxes2 = <<>>

\* lines 120-127: the if/elif chain
SelectCustomObjects ==
    /\ pc = "eval_start"
    /\ custom_objects' = ImportCustomObjects(args_model, custom_objects)
    /\ pc' = "eval_load_model"
    /\ UNCHANGED <<y_true, y_pred, bboxes1, bboxes2, args_model, out>>

\* line 130: reading the local custom_objects, then loading
LoadModel ==
    /\ pc = "eval_load_model"
    /\ \/ /\ custom_objects = "unbound"
          /\ pc' = "UnboundLocalError"
          /\ out' = out
       \/ /\ custom_objects # "unbound"
          /\ pc' = "eval_loaded"
          /\ out' = <<args_model, custom_objects>>
    /\ UNCHANGED <<y_true, y_pred, bboxes1, bboxes2, args_model, custom_objects>>

NextEval == SelectCustomObjects \/ LoadModel

SpecEval == InitEval /\ [][NextEval]_vars

\* the first of the four backbone names that occurs in name, "none" if none does
FirstBackbone(name) ==
    LET order == <<"mobilenet", "resnet", "densenet", "vgg">>
        hits  == {k \in 1..4 : Occurs(order[k], name)}
    IN  IF hits = {} THEN "none"
        ELSE order[CHOOSE k \in hits : \A m \in hits : k <= m]

\* C10: when load_model is reached custom_objects is bound, to the first of
\* mobilenet, resnet, densenet, vgg occurring in the basename of the model path;
\* main never fails on an unbound custom_objects.
C10_CustomObjectsBound ==
    /\ pc = "eval_load_model" =>
          /\ custom_objects # "unbound"
          /\ custom_objects = FirstBackbone(Basename(args_model))
    /\ pc # "UnboundLocalError"

====
